---- MODULE Spec2Model ----
(***************************************************************************)
(* Offline-first photo sync (Expo-imagesync).                              *)
(*                                                                         *)
(* The record store (src/src/db/db.ts, and its later revision with         *)
(* deleteAsset at the end of src/src/db/users.ts) is modelled statement by *)
(* statement: every execSql call is one SQL statement in a transaction of  *)
(* its own, so a store function made of several execSql calls is several   *)
(* steps and other statements may run between them.                        *)
(*                                                                         *)
(* SpecStore : the record store under concurrent callers of its API.       *)
(* Spec      : the application: the capture screen's handlers, the queue   *)
(*             manager's drain and the store, in one JavaScript process    *)
(*             whose SQL statements run in the order they were issued,     *)
(*             with network answers, upload outcomes and process crashes.  *)
(* FairSpec  : the application without taps on Retry and Delete, with the  *)
(*             scheduling under which every capture is to be uploaded.     *)
(* DrainSpec : drains over a table of pending records, started by direct   *)
(*             processQueue and enqueue calls, with the configured         *)
(*             concurrency limit drawn from 1..ConcurrencyLimit; calls     *)
(*             are not fair, the steps of a drain are.                     *)
(* CaptureSpec : the screen online and without termination; captures and   *)
(*             pull-to-refresh are not fair, the steps of a drain are.     *)
(* FaultSpec : DrainSpec with statements of the reservation that fail.     *)
(* BackoffSpec : the backoff policy asked for one delay after another.     *)
(* RetrySpec : the retry-counter calls of concurrent callers on a record.  *)
(* MaintSpec : initializeSchema and resetFailedAssets on any table.        *)
(* NavSpec   : DrainSpec with the Retry button and with the screen         *)
(*             unmounted and mounted again while a drain runs.             *)
(* UserSpec  : table users (src/src/db/users.ts) and the user-management   *)
(*             screen (src/src/screens/UserManagementScreen.tsx).          *)
(*                                                                         *)
(* The queue manager and the event bus (src/services) are not part of the  *)
(* sources at hand; their steps follow the contract of the specification   *)
(* (sections 4.2 and 4.3) and call the store functions of db.ts.           *)
(***************************************************************************)
EXTENDS Integers, Sequences, FiniteSets, TLC

\* ----------------------------------------------------------------- bounds
MaxAssets == 2        \* records ever inserted (ids 1..MaxAssets)
MaxRetries == 2       \* configuration: attempts before terminal failure
ConcurrencyLimit == 2 \* configuration: records reserved by one drain
MaxCrashes == 1       \* abnormal terminations of the process
MaxQueue == 2         \* SQL statements issued and not yet run
MaxUiTasks == 1       \* screen handlers in progress at the same time
MaxResets == 1        \* taps on a Retry button
MaxDeletes == 1       \* taps on a Delete button
MaxDeliveries == 2    \* transport successes counted per record
MaxDrains == 3        \* drains started by direct processQueue calls
MaxBaseDelay == 3     \* configuration: largest base delay tried
MaxMultiplier == 3    \* configuration: largest multiplier tried
MaxDelayCap == 8      \* configuration: largest maximum delay tried
MaxRetryCount == 4    \* largest retry count the backoff policy is asked about
MaxCalls == 3         \* incrementRetryCapped calls made on one record
MaxNames == 2         \* distinct e-mail addresses, and distinct usernames
MaxUserId == 3        \* largest row id of table users
MaxUserQueue == 2     \* statements of the user screen issued and not yet run
MaxSuperCalls == 2    \* calls of createOrGetSuperAdmin

\* retries are not driven beyond this by the model's transport failures
RetryCap == MaxRetries + 1

Ids == 1..MaxAssets
Callers == {"c1", "c2"}   \* concurrent callers of the store API

\* SQL NULL
Null == <<>>

Statuses == {"pending", "uploading", "uploaded", "failed"}

\* A server id is a string; only its prefix and a serial matter:
\* <<prefix, n>> stands for the text prefix followed by n.
ServerIdPool == {<<"srv", 1>>, <<"server_", 1>>}

VARIABLES
  assets,   \* table assets: id -> [status, retries, server_id]
  seq,      \* sqlite_sequence of the AUTOINCREMENT key: last id handed out
  call,     \* SpecStore: per caller, the multi-statement call in progress
  foreign,  \* SpecStore: a write other than a reservation's ran while a
            \* reservation was open (history)
  isProcessing,  \* queue manager: a drain is active (single-flight flag)
  drain,         \* queue manager: the drain's position and reserved ids
  work,          \* queue manager: per reserved record, the upload's position
  sqlq,          \* SQL statements issued and not yet run, oldest first
  ui,            \* screen handlers in progress: kind -> [pc, id]
  items,         \* screen state `items`: id -> status as last loaded
  syncingIds,    \* screen state `syncingIds`
  failedIds,     \* screen state `failedIds`
  crashes,       \* abnormal terminations so far
  resets,        \* taps on a Retry button so far
  deletes,       \* taps on a Delete button so far
  concurrencyLimit, \* configuration in force: records one drain reserves
  drainsStarted, \* history: drains started by direct processQueue calls
  backoff,       \* the backoff policy's configuration, the retry count it was
                 \* last asked about and the delays it answered
  delivered,     \* history: per id, transport successes
  attempts,      \* history: per id, failed attempts since capture or since
                 \* the last reset, while untouched
  touched,       \* history: per id, a reset or a crash hit the record while
                 \* a worker held it: its attempts are no longer counted
  lastEvent,     \* history: per id, the last event published
  lastCall,      \* history: outcome of the last processQueue/enqueue call:
                 \* started, noop (a drain was active), offline, or none
                 \* once the drain it started has ended
  activeDrains,  \* history: drains started and not ended
  retryHist,     \* history of the retry-counter calls: per caller the value
                 \* of retries before its call, per id the value at the
                 \* start, the capped calls made and whether another write
                 \* touched the record
  lastOp,        \* history of the maintenance operations: the last one
                 \* applied and the table it was applied to
  users,         \* table users: id -> [email, username, role]
  currentUser,   \* user screen, prop currentUser: Null when no one is
                 \* logged in, else [id, role], the id a string
  isSuperAdmin,  \* user screen, prop isSuperAdmin
  userScreen,    \* user screen: state `users` as last loaded, and its
                 \* statements issued and not yet run
  superCall,     \* the call of createOrGetSuperAdmin in progress
  userHist       \* history of table users: rows created by
                 \* createOrGetSuperAdmin per arguments, its calls, and the
                 \* last role change and deletion with who made them

storeVars == <<assets, seq>>
callVars == <<call, foreign>>
qmVars == <<isProcessing, drain, work, activeDrains, lastCall>>
uiVars == <<ui, items, syncingIds, failedIds>>
histVars == <<delivered, attempts, touched, lastEvent>>
tapVars == <<crashes, resets, deletes, concurrencyLimit, drainsStarted, backoff>>
userVars == <<users, currentUser, isSuperAdmin, userScreen, superCall, userHist>>
extVars == <<retryHist, lastOp, userVars>>
envVars == <<tapVars, extVars>>
appVars == <<qmVars, uiVars, histVars, envVars, sqlq>>
vars == <<storeVars, callVars, appVars>>

\* ------------------------------------------------------ the record store
\* The pure effect of each SQL statement on the table `a`.

Min(S) == CHOOSE x \in S : \A y \in S : x <= y

RECURSIVE Ascending(_)
\* ORDER BY id ASC
Ascending(S) ==
  IF S = {} THEN <<>> ELSE <<Min(S)>> \o Ascending(S \ {Min(S)})

\* a LIMIT that lets one row more through
Limit_plusOne(s, n) == SubSeq(s, 1, IF Len(s) < n + 1 THEN Len(s) ELSE n + 1)

\* LIMIT n
Limit(s, n) == SubSeq(s, 1, IF Len(s) < n THEN Len(s) ELSE n)

Range(s) == {s[i] : i \in 1..Len(s)}

mapRow(a, id) ==
  [id |-> id, status |-> a[id].status, retries |-> a[id].retries,
   serverId |-> a[id].server_id]

\* a rowid without AUTOINCREMENT: one more than the largest id in the table
insertId_maxPlusOne(a, s) ==
  IF DOMAIN a = {} THEN 1 ELSE (CHOOSE x \in DOMAIN a : \A y \in DOMAIN a : y <= x) + 1

\* id INTEGER PRIMARY KEY AUTOINCREMENT: one more than the largest id the
\* table has ever held, which sqlite_sequence (s) keeps
insertId(a, s) == s + 1

\* INSERT INTO assets (...) VALUES (...): server_id is not among the columns
insertAsset(a, id, status, retries) ==
  [i \in DOMAIN a \cup {id} |->
     IF i = id THEN [status |-> status, retries |-> retries, server_id |-> Null]
     ELSE a[i]]

\* SELECT * FROM assets WHERE status IN ('pending','failed') ORDER BY id ASC LIMIT ?
getPendingAssets(a, limit) ==
  Limit(Ascending({i \in DOMAIN a : a[i].status \in {"pending", "failed"}}), limit)

\* reservePendingAssets, statement 1:
\* SELECT id FROM assets WHERE status IN ('pending','failed') ORDER BY id ASC LIMIT ?
\* the SELECT without its LIMIT
reserveSelect_unlimited(a, limit) ==
  Ascending({i \in DOMAIN a : a[i].status \in {"pending", "failed"}})

reserveSelect(a, limit) ==
  Limit(Ascending({i \in DOMAIN a : a[i].status \in {"pending", "failed"}}), limit)

\* the UPDATE that marks every eligible row, selected or not
reserveUpdate_allEligible(a, ids) ==
  [i \in DOMAIN a |->
     IF a[i].status \in {"pending", "failed"}
     THEN [a[i] EXCEPT !.status = "uploading"] ELSE a[i]]

\* reservePendingAssets, statement 2:
\* UPDATE assets SET status = 'uploading' WHERE id IN (ids)
reserveUpdate(a, ids) ==
  [i \in DOMAIN a |->
     IF i \in Range(ids) THEN [a[i] EXCEPT !.status = "uploading"] ELSE a[i]]

\* the read-back that returns the first reserved row only
reserveReadBack_first(a, ids) ==
  Limit(Ascending({i \in DOMAIN a : i \in Range(ids)}), 1)

\* reservePendingAssets, statement 3:
\* SELECT * FROM assets WHERE id IN (ids) ORDER BY id ASC
reserveReadBack(a, ids) ==
  Ascending({i \in DOMAIN a : i \in Range(ids)})

\* reservePendingAssets(limit) with no other statement between its three:
\* the rows returned and the table left
reservePendingAssets(a, limit) ==
  LET ids == reserveSelect(a, limit)
      marked == IF ids = <<>> THEN a ELSE reserveUpdate(a, ids)
      back == IF ids = <<>> THEN <<>> ELSE reserveReadBack(marked, ids)
  IN [rows |-> [k \in 1..Len(back) |-> mapRow(marked, back[k])],
      store |-> marked]

\* markUploaded that also clears retries
markUploaded_clearRetries(a, id, serverId) ==
  [i \in DOMAIN a |->
     IF i = id THEN [status |-> "uploaded", retries |-> 0, server_id |-> serverId]
     ELSE a[i]]

\* UPDATE assets SET status = 'uploaded', server_id = ? WHERE id = ?
markUploaded(a, id, serverId) ==
  [i \in DOMAIN a |->
     IF i = id THEN [a[i] EXCEPT !.status = "uploaded", !.server_id = serverId]
     ELSE a[i]]

\* incrementRetry, statement 1: UPDATE assets SET retries = retries + 1 WHERE id = ?
incrementRetryUpdate(a, id) ==
  [i \in DOMAIN a |->
     IF i = id THEN [a[i] EXCEPT !.retries = @ + 1] ELSE a[i]]

\* incrementRetry, statement 2: SELECT retries FROM assets WHERE id = ?
\* sel.rows.item(0).retries throws when the row is gone
incrementRetrySelect(a, id) ==
  IF id \in DOMAIN a
  THEN [threw |-> FALSE, retries |-> a[id].retries]
  ELSE [threw |-> TRUE, retries |-> 0]

\* markFailed writing 'pending' instead of 'failed'
markFailed_pending(a, id) ==
  [i \in DOMAIN a |->
     IF i = id THEN [a[i] EXCEPT !.status = "pending"] ELSE a[i]]

\* UPDATE assets SET status = 'failed' WHERE id = ?
markFailed(a, id) ==
  [i \in DOMAIN a |->
     IF i = id THEN [a[i] EXCEPT !.status = "failed"] ELSE a[i]]

\* UPDATE assets SET status = 'pending' WHERE id = ?
setPending(a, id) ==
  [i \in DOMAIN a |->
     IF i = id THEN [a[i] EXCEPT !.status = "pending"] ELSE a[i]]

\* resetFailedAssets without its WHERE clause
resetFailedAssets_everyRecord(a) ==
  [i \in DOMAIN a |-> [a[i] EXCEPT !.status = "pending", !.retries = 0]]

\* UPDATE assets SET status = 'pending', retries = 0 WHERE status = 'failed'
resetFailedAssets(a) ==
  [i \in DOMAIN a |->
     IF a[i].status = "failed"
     THEN [a[i] EXCEPT !.status = "pending", !.retries = 0] ELSE a[i]]

\* resetAsset writing the status only
resetAsset_statusOnly(a, id) ==
  [i \in DOMAIN a |->
     IF i = id THEN [a[i] EXCEPT !.status = "pending"] ELSE a[i]]

\* UPDATE assets SET status = 'pending', retries = 0 WHERE id = ?
resetAsset(a, id) ==
  [i \in DOMAIN a |->
     IF i = id THEN [a[i] EXCEPT !.status = "pending", !.retries = 0] ELSE a[i]]

\* incrementRetryCapped, statement 1: SELECT retries FROM assets WHERE id = ?
\* sel.rows.item(0)?.retries ?? 0
incrementRetryCappedSelect(a, id) ==
  IF id \in DOMAIN a THEN a[id].retries ELSE 0

\* incrementRetryCapped, statement 2: UPDATE assets SET retries = ? WHERE id = ?
\* with current + 1
incrementRetryCappedUpdate(a, id, current) ==
  [i \in DOMAIN a |->
     IF i = id THEN [a[i] EXCEPT !.retries = current + 1] ELSE a[i]]

\* DELETE FROM assets WHERE id = ?
deleteAsset(a, id) ==
  [i \in DOMAIN a \ {id} |-> a[i]]

\* --------------------------------------------------- SpecStore: the callers
NoCall ==
  [op |-> "none", pc |-> "idle", ids |-> <<>>, id |-> 0,
   ret |-> [threw |-> FALSE, retries |-> 0]]

\* the application's state when nothing of it runs
NoBackoff ==
  [baseDelay |-> 0, multiplier |-> 0, maxDelay |-> 0, retryCount |-> 0,
   delay |-> 0, previous |-> 0]
NoWork == [pc |-> "none", sid |-> Null, ret |-> 0]
NoDrain == [pc |-> "idle", ids |-> <<>>]
NoTask == [pc |-> "idle", id |-> 0]
UiKinds == {"mount", "refresh", "retry", "capture", "delete"}

NoRetryHist ==
  [pre |-> [p \in Callers |-> -1], initial |-> [i \in Ids |-> 0],
   calls |-> [i \in Ids |-> 0], mixed |-> [i \in Ids |-> FALSE]]

NoOp == [op |-> "none", before |-> <<>>]

Names == 1..MaxNames
Roles == {"superadmin", "admin", "user"}

NoScreen == [users |-> <<>>, queue |-> <<>>]
NoSuperCall == [pc |-> "idle", email |-> 0, username |-> 0, id |-> 0, ret |-> "none"]
NoUserHist ==
  [created |-> [args \in Names \X Names |-> 0], calls |-> 0,
   changed |-> Null, promoted |-> Null, deleted |-> Null]

\* table users is empty and no one is logged in
UserIdle ==
  /\ users = <<>>
  /\ currentUser = Null
  /\ isSuperAdmin = FALSE
  /\ userScreen = NoScreen
  /\ superCall = NoSuperCall
  /\ userHist = NoUserHist

\* no history of the specifications that are not running
ExtIdle == retryHist = NoRetryHist /\ lastOp = NoOp /\ UserIdle

\* nothing of the queue manager or the screen runs
Quiescent ==
  /\ ExtIdle
  /\ isProcessing = FALSE
  /\ drain = NoDrain
  /\ work = [i \in Ids |-> NoWork]
  /\ sqlq = <<>>
  /\ ui = [k \in UiKinds |-> NoTask]
  /\ items = <<>>
  /\ syncingIds = {}
  /\ failedIds = {}
  /\ crashes = 0
  /\ resets = 0
  /\ deletes = 0
  /\ concurrencyLimit = ConcurrencyLimit
  /\ drainsStarted = 0
  /\ delivered = [i \in Ids |-> 0]
  /\ attempts = [i \in Ids |-> 0]
  /\ touched = [i \in Ids |-> FALSE]
  /\ lastEvent = [i \in Ids |-> "none"]
  /\ lastCall = "none"
  /\ activeDrains = 0

AppIdle == Quiescent /\ backoff = NoBackoff

ReserveOpen == \E p \in Callers : call[p].op = "reserve"

\* a write that is not part of a reservation
ForeignWrite == foreign' = (foreign \/ ReserveOpen)

StoreInit ==
  /\ assets = <<>>
  /\ seq = 0
  /\ call = [p \in Callers |-> NoCall]
  /\ foreign = FALSE
  /\ AppIdle

\* insertAsset as the capture handlers call it: status 'pending', no retries
S_insertAsset ==
  /\ seq < MaxAssets
  /\ assets' = insertAsset(assets, insertId(assets, seq), "pending", 0)
  /\ seq' = insertId(assets, seq)
  /\ UNCHANGED <<callVars, appVars>>

S_reserveSelect(p) ==
  /\ call[p].op = "none"
  /\ \E limit \in 1..MaxAssets :
       LET ids == reserveSelect(assets, limit) IN
       call' = [call EXCEPT ![p] =
                  IF Len(ids) = 0
                  THEN [NoCall EXCEPT !.op = "reserve", !.pc = "returned"]
                  ELSE [NoCall EXCEPT !.op = "reserve", !.pc = "update", !.ids = ids]]
  /\ UNCHANGED <<assets, seq, foreign, appVars>>

S_reserveUpdate(p) ==
  /\ call[p].op = "reserve" /\ call[p].pc = "update"
  /\ assets' = reserveUpdate(assets, call[p].ids)
  /\ call' = [call EXCEPT ![p].pc = "readback"]
  /\ UNCHANGED <<seq, foreign, appVars>>

S_reserveReadBack(p) ==
  /\ call[p].op = "reserve" /\ call[p].pc = "readback"
  /\ call' = [call EXCEPT ![p].pc = "returned",
                          ![p].ids = reserveReadBack(assets, call[p].ids)]
  /\ UNCHANGED <<assets, seq, foreign, appVars>>

\* the caller is done with what a call returned
S_return(p) ==
  /\ call[p].pc = "returned"
  /\ call' = [call EXCEPT ![p] = NoCall]
  /\ foreign' = (foreign /\ \E q \in Callers \ {p} : call[q].op = "reserve")
  /\ UNCHANGED <<storeVars, appVars>>

S_markUploaded ==
  \E id \in Ids, sid \in ServerIdPool :
    /\ assets' = markUploaded(assets, id, sid)
    /\ ForeignWrite
    /\ UNCHANGED <<seq, call, appVars>>

S_incrementRetryUpdate(p) ==
  /\ call[p].op = "none"
  /\ \E id \in Ids :
       /\ id \in DOMAIN assets => assets[id].retries < RetryCap
       /\ assets' = incrementRetryUpdate(assets, id)
       /\ call' = [call EXCEPT ![p] =
                     [NoCall EXCEPT !.op = "incrementRetry", !.pc = "select", !.id = id]]
  /\ ForeignWrite
  /\ UNCHANGED <<seq, appVars>>

S_incrementRetrySelect(p) ==
  /\ call[p].op = "incrementRetry" /\ call[p].pc = "select"
  /\ call' = [call EXCEPT ![p].pc = "returned",
                          ![p].ret = incrementRetrySelect(assets, call[p].id)]
  /\ UNCHANGED <<assets, seq, foreign, appVars>>

\* incrementRetryCapped(id, maxRetries): the read; at the cap it returns
S_incrementRetryCappedSelect(p) ==
  /\ call[p].op = "none"
  /\ \E id \in DOMAIN assets :
       LET current == incrementRetryCappedSelect(assets, id) IN
       call' = [call EXCEPT ![p] =
                  IF current >= MaxRetries
                  THEN [NoCall EXCEPT !.op = "incrementRetryCapped", !.pc = "returned",
                                      !.id = id, !.ret.retries = current]
                  ELSE [NoCall EXCEPT !.op = "incrementRetryCapped", !.pc = "update",
                                      !.id = id, !.ret.retries = current]]
  /\ UNCHANGED <<assets, seq, foreign, appVars>>

\* incrementRetryCapped: the write of current + 1
S_incrementRetryCappedUpdate(p) ==
  /\ call[p].op = "incrementRetryCapped" /\ call[p].pc = "update"
  /\ assets' = incrementRetryCappedUpdate(assets, call[p].id, call[p].ret.retries)
  /\ call' = [call EXCEPT ![p].pc = "returned", ![p].ret.retries = @ + 1]
  /\ ForeignWrite
  /\ UNCHANGED <<seq, appVars>>

S_markFailed ==
  \E id \in Ids :
    /\ assets' = markFailed(assets, id)
    /\ ForeignWrite
    /\ UNCHANGED <<seq, call, appVars>>

S_setPending ==
  \E id \in Ids :
    /\ assets' = setPending(assets, id)
    /\ ForeignWrite
    /\ UNCHANGED <<seq, call, appVars>>

S_resetFailedAssets ==
  /\ assets' = resetFailedAssets(assets)
  /\ ForeignWrite
  /\ UNCHANGED <<seq, call, appVars>>

S_resetAsset ==
  \E id \in Ids :
    /\ assets' = resetAsset(assets, id)
    /\ ForeignWrite
    /\ UNCHANGED <<seq, call, appVars>>

S_deleteAsset ==
  \E id \in Ids :
    /\ assets' = deleteAsset(assets, id)
    /\ ForeignWrite
    /\ UNCHANGED <<seq, call, appVars>>

StoreNext ==
  \/ S_insertAsset
  \/ \E p \in Callers : S_reserveSelect(p)
  \/ \E p \in Callers : S_reserveUpdate(p)
  \/ \E p \in Callers : S_reserveReadBack(p)
  \/ \E p \in Callers : S_return(p)
  \/ S_markUploaded
  \/ \E p \in Callers : S_incrementRetryUpdate(p)
  \/ \E p \in Callers : S_incrementRetrySelect(p)
  \/ \E p \in Callers : S_incrementRetryCappedSelect(p)
  \/ \E p \in Callers : S_incrementRetryCappedUpdate(p)
  \/ S_markFailed
  \/ S_setPending
  \/ S_resetFailedAssets
  \/ S_resetAsset
  \/ S_deleteAsset

SpecStore == StoreInit /\ [][StoreNext]_vars


\* ------------------------------------------------- Spec: the application
\* One JavaScript process.  A handler runs until it awaits; an SQL statement
\* it issued is run when the statements issued before it have run, and the
\* code after the await runs with the statement's result.

Task(kind, id) == [t |-> kind, id |-> id]

\* the statement `task` issued is the next to run
Run(task) == sqlq # <<>> /\ Head(sqlq) = task

QueueFree == Len(sqlq) < MaxQueue

UiFree(k) ==
  /\ ui[k].pc = "idle"
  /\ Cardinality({j \in UiKinds \ {"mount"} : ui[j].pc # "idle"}) < MaxUiTasks

\* SELECT * FROM assets ORDER BY id DESC, as the screen uses it: status by id
getAllAssets(a) == [i \in DOMAIN a |-> a[i].status]

\* server_id LIKE 'prefix%'
Like(sid, prefix) == sid # Null /\ sid[1] = prefix

\* initializeSchema: CREATE TABLE IF NOT EXISTS and ALTER TABLE leave the rows
\* alone; the migration is
\* UPDATE assets SET server_id = NULL
\*   WHERE server_id LIKE 'local_%' OR server_id LIKE 'server_%'
initializeSchema(a) ==
  [i \in DOMAIN a |->
     IF Like(a[i].server_id, "local_") \/ Like(a[i].server_id, "server_")
     THEN [a[i] EXCEPT !.server_id = Null] ELSE a[i]]

\* The screen's handlers of asset:uploading, asset:uploaded and asset:failed,
\* run by the event bus for every id of S before publish returns.
\* (asset:queued has no handler on the screen.)
handleAssetEvent(ev, S) ==
  /\ syncingIds' = CASE ev = "uploading" -> syncingIds \cup S
                     [] ev \in {"uploaded", "failed"} -> syncingIds \ S
                     [] OTHER -> syncingIds
  /\ failedIds' = CASE ev = "failed" -> failedIds \cup S
                    [] ev = "uploaded" -> failedIds \ S
                    [] OTHER -> failedIds

\* SyncEventBus publish of event ev for every id of S
publish(ev, S) ==
  /\ lastEvent' = [i \in Ids |-> IF i \in S THEN ev ELSE lastEvent[i]]
  /\ handleAssetEvent(ev, S)

\* processQueue without the single-flight guard
processQueue_unguarded ==
  /\ isProcessing' = TRUE
  /\ drain' = [pc |-> "probe", ids |-> <<>>]
  /\ activeDrains' = activeDrains + 1
  /\ lastCall' = IF isProcessing THEN "noop" ELSE "started"

\* QueueManager.processQueue up to its first await: the single-flight guard
processQueue ==
  IF isProcessing
  THEN /\ lastCall' = "noop"
       /\ UNCHANGED <<isProcessing, drain, activeDrains>>
  ELSE /\ isProcessing' = TRUE
       /\ drain' = [pc |-> "probe", ids |-> <<>>]
       /\ activeDrains' = activeDrains + 1
       /\ lastCall' = "started"

\* enqueue that starts a drain cycle over, active or not
enqueue_restarts(id) ==
  /\ isProcessing' = TRUE
  /\ drain' = [pc |-> "probe", ids |-> <<>>]
  /\ activeDrains' = IF isProcessing THEN activeDrains ELSE activeDrains + 1
  /\ lastCall' = "started"

\* QueueManager.enqueue: triggers a drain if none is active
enqueue(id) == processQueue

\* the drain cycle ends
endDrain ==
  /\ isProcessing' = FALSE
  /\ drain' = NoDrain
  /\ activeDrains' = activeDrains - 1
  /\ lastCall' = "none"

AppInit ==
  /\ assets = <<>>
  /\ seq = 0
  /\ call = [p \in Callers |-> NoCall]
  /\ foreign = FALSE
  /\ isProcessing = FALSE
  /\ drain = NoDrain
  /\ work = [i \in Ids |-> NoWork]
  /\ sqlq = <<Task("mount", 0)>>
  /\ ui = [k \in UiKinds |-> IF k = "mount" THEN [pc |-> "init", id |-> 0] ELSE NoTask]
  /\ items = <<>>
  /\ syncingIds = {}
  /\ failedIds = {}
  /\ crashes = 0
  /\ resets = 0
  /\ deletes = 0
  /\ concurrencyLimit = ConcurrencyLimit
  /\ drainsStarted = 0
  /\ backoff = NoBackoff
  /\ ExtIdle
  /\ delivered = [i \in Ids |-> 0]
  /\ attempts = [i \in Ids |-> 0]
  /\ touched = [i \in Ids |-> FALSE]
  /\ lastEvent = [i \in Ids |-> "none"]
  /\ lastCall = "none"
  /\ activeDrains = 0

\* ---- the screen (CaptureScreen)

\* useEffect on mount: await initializeSchema()
U_mountInit ==
  /\ Run(Task("mount", 0)) /\ ui["mount"].pc = "init"
  /\ assets' = initializeSchema(assets)
  /\ ui' = [ui EXCEPT !["mount"].pc = "reload"]
  /\ sqlq' = Append(Tail(sqlq), Task("mount", 0))
  /\ UNCHANGED <<seq, callVars, qmVars, items, syncingIds, failedIds, histVars, envVars>>

\* useEffect on mount: await reload()
U_mountReload ==
  /\ Run(Task("mount", 0)) /\ ui["mount"].pc = "reload"
  /\ items' = getAllAssets(assets)
  /\ ui' = [ui EXCEPT !["mount"] = NoTask]
  /\ sqlq' = Tail(sqlq)
  /\ UNCHANGED <<storeVars, callVars, qmVars, syncingIds, failedIds, histVars, envVars>>

\* onRefresh is pulled: setRefreshing; reload() is issued
U_refresh ==
  /\ UiFree("refresh") /\ QueueFree
  /\ ui' = [ui EXCEPT !["refresh"] = [pc |-> "reload", id |-> 0]]
  /\ sqlq' = Append(sqlq, Task("refresh", 0))
  /\ UNCHANGED <<storeVars, callVars, qmVars, items, syncingIds, failedIds, histVars, envVars>>

\* onRefresh: reload() returns; queueManager.processQueue()
U_refreshReload ==
  /\ Run(Task("refresh", 0)) /\ ui["refresh"].pc = "reload"
  /\ items' = getAllAssets(assets)
  /\ ui' = [ui EXCEPT !["refresh"] = NoTask]
  /\ sqlq' = Tail(sqlq)
  /\ processQueue
  /\ UNCHANGED <<storeVars, callVars, work, syncingIds, failedIds, histVars, envVars>>

\* the Retry button of a listed item: shown when
\* item.status !== "uploaded" && !isSyncing; handleRetry issues resetAsset
U_retry(id) ==
  /\ UiFree("retry") /\ QueueFree
  /\ id \in DOMAIN items /\ items[id] # "uploaded" /\ id \notin syncingIds
  /\ resets < MaxResets
  /\ resets' = resets + 1
  /\ ui' = [ui EXCEPT !["retry"] = [pc |-> "reset", id |-> id]]
  /\ sqlq' = Append(sqlq, Task("retry", id))
  /\ UNCHANGED <<storeVars, callVars, qmVars, items, syncingIds, failedIds, histVars,
                 crashes, deletes, concurrencyLimit, drainsStarted, backoff, extVars>>

\* handleRetry: await resetAsset(assetId); reload() is issued
U_retryReset(id) ==
  /\ Run(Task("retry", id)) /\ ui["retry"].pc = "reset"
  /\ assets' = resetAsset(assets, id)
  /\ touched' = [touched EXCEPT ![id] = @ \/ work[id].pc # "none"]
  /\ attempts' = [attempts EXCEPT ![id] = 0]
  /\ ui' = [ui EXCEPT !["retry"].pc = "reload"]
  /\ sqlq' = Append(Tail(sqlq), Task("retry", id))
  /\ UNCHANGED <<seq, callVars, qmVars, items, syncingIds, failedIds,
                 delivered, lastEvent, envVars>>

\* handleRetry: reload() returns; queueManager.enqueue(assetId)
U_retryReload(id) ==
  /\ Run(Task("retry", id)) /\ ui["retry"].pc = "reload"
  /\ items' = getAllAssets(assets)
  /\ ui' = [ui EXCEPT !["retry"] = NoTask]
  /\ sqlq' = Tail(sqlq)
  /\ enqueue(id)
  /\ UNCHANGED <<storeVars, callVars, work, syncingIds, failedIds, histVars, envVars>>

\* a photo is taken or picked: handlePickerResult issues insertAsset
U_capture ==
  /\ UiFree("capture") /\ QueueFree
  /\ seq < MaxAssets
  /\ ui' = [ui EXCEPT !["capture"] = [pc |-> "insert", id |-> 0]]
  /\ sqlq' = Append(sqlq, Task("capture", 0))
  /\ UNCHANGED <<storeVars, callVars, qmVars, items, syncingIds, failedIds, histVars, envVars>>

\* handlePickerResult: insertAsset returns the id; emitAssetQueued(assetId);
\* reload() is issued
U_captureInsert ==
  /\ Run(Task("capture", 0)) /\ ui["capture"].pc = "insert"
  /\ assets' = insertAsset(assets, insertId(assets, seq), "pending", 0)
  /\ seq' = insertId(assets, seq)
  /\ publish("queued", {insertId(assets, seq)})
  /\ ui' = [ui EXCEPT !["capture"] = [pc |-> "reload", id |-> insertId(assets, seq)]]
  /\ sqlq' = Append(Tail(sqlq), Task("capture", 0))
  /\ UNCHANGED <<callVars, qmVars, items, delivered, attempts, touched, envVars>>

\* handlePickerResult: reload() returns; queueManager.enqueue(assetId)
U_captureReload ==
  /\ Run(Task("capture", 0)) /\ ui["capture"].pc = "reload"
  /\ items' = getAllAssets(assets)
  /\ sqlq' = Tail(sqlq)
  /\ enqueue(ui["capture"].id)
  /\ ui' = [ui EXCEPT !["capture"] = NoTask]
  /\ UNCHANGED <<storeVars, callVars, work, syncingIds, failedIds, histVars, envVars>>

\* the Delete button of a listed item (shown to admins): deleteAsset is issued
U_delete(id) ==
  /\ UiFree("delete") /\ QueueFree
  /\ id \in DOMAIN items
  /\ deletes < MaxDeletes
  /\ deletes' = deletes + 1
  /\ ui' = [ui EXCEPT !["delete"] = [pc |-> "delete", id |-> id]]
  /\ sqlq' = Append(sqlq, Task("delete", id))
  /\ UNCHANGED <<storeVars, callVars, qmVars, items, syncingIds, failedIds, histVars,
                 crashes, resets, concurrencyLimit, drainsStarted, backoff, extVars>>

\* handleDeleteAsset: await deleteAsset(assetId); reload() is issued
U_deleteRun(id) ==
  /\ Run(Task("delete", id)) /\ ui["delete"].pc = "delete"
  /\ assets' = deleteAsset(assets, id)
  /\ ui' = [ui EXCEPT !["delete"].pc = "reload"]
  /\ sqlq' = Append(Tail(sqlq), Task("delete", id))
  /\ UNCHANGED <<seq, callVars, qmVars, items, syncingIds, failedIds, histVars, envVars>>

\* handleDeleteAsset: reload() returns
U_deleteReload(id) ==
  /\ Run(Task("delete", id)) /\ ui["delete"].pc = "reload"
  /\ items' = getAllAssets(assets)
  /\ ui' = [ui EXCEPT !["delete"] = NoTask]
  /\ sqlq' = Tail(sqlq)
  /\ UNCHANGED <<storeVars, callVars, qmVars, syncingIds, failedIds, histVars, envVars>>

\* handleAssetUploaded's `void reload()` returns
U_eventReload ==
  /\ Run(Task("evreload", 0))
  /\ items' = getAllAssets(assets)
  /\ sqlq' = Tail(sqlq)
  /\ UNCHANGED <<storeVars, callVars, qmVars, ui, syncingIds, failedIds, histVars, envVars>>

\* ---- the queue manager's drain cycle (processQueue after the guard)

\* the cycle returns at the reachability check
returnOffline ==
  /\ isProcessing' = FALSE
  /\ drain' = NoDrain
  /\ activeDrains' = activeDrains - 1
  /\ lastCall' = "offline"

\* the reachability check not stopping the cycle when offline
D_probe_reservesOffline(isOnline) ==
  /\ drain.pc = "probe"
  /\ QueueFree
  /\ drain' = [drain EXCEPT !.pc = "select"]
  /\ sqlq' = Append(sqlq, Task("drain", 0))
  /\ lastCall' = IF isOnline THEN lastCall ELSE "offline"
  /\ UNCHANGED <<isProcessing, activeDrains>>
  /\ UNCHANGED <<storeVars, callVars, work, uiVars, histVars, envVars>>

\* step 2, reachability check: the network signal answers isOnline; offline
\* ends the cycle, online issues the reservation's first statement
D_probe(isOnline) ==
  /\ drain.pc = "probe"
  /\ IF isOnline
     THEN /\ QueueFree
          /\ drain' = [drain EXCEPT !.pc = "select"]
          /\ sqlq' = Append(sqlq, Task("drain", 0))
          /\ UNCHANGED <<isProcessing, activeDrains, lastCall>>
     ELSE /\ returnOffline
          /\ UNCHANGED sqlq
  /\ UNCHANGED <<storeVars, callVars, work, uiVars, histVars, envVars>>

\* step 3, reservePendingAssets(concurrencyLimit): the SELECT of the ids
D_select ==
  /\ Run(Task("drain", 0)) /\ drain.pc = "select"
  /\ LET ids == reserveSelect(assets, concurrencyLimit) IN
       IF ids = <<>>
       THEN /\ endDrain
            /\ sqlq' = Tail(sqlq)
       ELSE /\ drain' = [pc |-> "update", ids |-> ids]
            /\ sqlq' = Append(Tail(sqlq), Task("drain", 0))
            /\ UNCHANGED <<isProcessing, activeDrains, lastCall>>
  /\ UNCHANGED <<storeVars, callVars, work, uiVars, histVars, envVars>>

\* step 3, reservePendingAssets: the UPDATE to 'uploading'
D_update ==
  /\ Run(Task("drain", 0)) /\ drain.pc = "update"
  /\ assets' = reserveUpdate(assets, drain.ids)
  /\ drain' = [drain EXCEPT !.pc = "readback"]
  /\ sqlq' = Append(Tail(sqlq), Task("drain", 0))
  /\ UNCHANGED <<seq, callVars, isProcessing, activeDrains, lastCall, work,
                 uiVars, histVars, envVars>>

\* step 3, reservePendingAssets: the read-back returns the rows; step 4:
\* 'uploading' is published for each and each is dispatched to the transport
\* the dispatch that publishes no 'uploading' event
D_readback_silent ==
  /\ Run(Task("drain", 0)) /\ drain.pc = "readback"
  /\ sqlq' = Tail(sqlq)
  /\ LET out == Range(reserveReadBack(assets, drain.ids)) IN
       /\ work' = [i \in Ids |-> IF i \in out THEN [NoWork EXCEPT !.pc = "inflight"]
                                 ELSE work[i]]
       /\ IF out = {}
          THEN endDrain
          ELSE /\ drain' = [drain EXCEPT !.pc = "dispatch"]
               /\ UNCHANGED <<isProcessing, activeDrains, lastCall>>
  /\ UNCHANGED <<storeVars, callVars, uiVars, histVars, envVars>>

D_readback ==
  /\ Run(Task("drain", 0)) /\ drain.pc = "readback"
  /\ sqlq' = Tail(sqlq)
  /\ LET out == Range(reserveReadBack(assets, drain.ids)) IN
       /\ publish("uploading", out)
       /\ work' = [i \in Ids |-> IF i \in out THEN [NoWork EXCEPT !.pc = "inflight"]
                                 ELSE work[i]]
       /\ IF out = {}
          THEN endDrain
          ELSE /\ drain' = [drain EXCEPT !.pc = "dispatch"]
               /\ UNCHANGED <<isProcessing, activeDrains, lastCall>>
  /\ UNCHANGED <<storeVars, callVars, ui, items, delivered, attempts, touched, envVars>>

\* a worker that never releases the single-flight flag
finishWork_holdsFlag(id) ==
  /\ work' = [work EXCEPT ![id] = NoWork]
  /\ UNCHANGED <<isProcessing, drain, activeDrains, lastCall>>

\* a worker of the pool is done with its record; the cycle ends with the last
finishWork(id) ==
  /\ work' = [work EXCEPT ![id] = NoWork]
  /\ IF \A j \in Ids \ {id} : work[j].pc = "none"
     THEN endDrain
     ELSE UNCHANGED <<isProcessing, drain, activeDrains, lastCall>>

\* the transport returns { serverId, status: "ok" }; step 5 issues markUploaded
T_success(id) ==
  /\ work[id].pc = "inflight"
  /\ QueueFree
  /\ delivered[id] < MaxDeliveries
  /\ delivered' = [delivered EXCEPT ![id] = @ + 1]
  /\ work' = [work EXCEPT ![id] = [pc |-> "markUploaded",
                                   sid |-> <<"srv", 10 * id + delivered[id]>>,
                                   ret |-> 0]]
  /\ sqlq' = Append(sqlq, Task("work", id))
  /\ UNCHANGED <<storeVars, callVars, isProcessing, drain, activeDrains, lastCall,
                 uiVars, attempts, touched, lastEvent, envVars>>

\* a transport failure that cancels the whole batch and ends the drain
T_fail_abortsBatch(id) ==
  /\ work[id].pc = "inflight"
  /\ QueueFree
  /\ id \in DOMAIN assets => assets[id].retries < RetryCap
  /\ attempts' = [attempts EXCEPT ![id] = IF touched[id] THEN @ ELSE @ + 1]
  /\ work' = [i \in Ids |-> NoWork]
  /\ endDrain
  /\ UNCHANGED <<storeVars, callVars, sqlq, uiVars, delivered, touched,
                 lastEvent, envVars>>

\* the transport throws, rejects or times out; step 6 issues incrementRetry
T_fail(id) ==
  /\ work[id].pc = "inflight"
  /\ QueueFree
  /\ id \in DOMAIN assets => assets[id].retries < RetryCap
  /\ attempts' = [attempts EXCEPT ![id] = IF touched[id] THEN @ ELSE @ + 1]
  /\ work' = [work EXCEPT ![id].pc = "incUpdate"]
  /\ sqlq' = Append(sqlq, Task("work", id))
  /\ UNCHANGED <<storeVars, callVars, isProcessing, drain, activeDrains, lastCall,
                 uiVars, delivered, touched, lastEvent, envVars>>

\* step 5: markUploaded(id, serverId) has run; 'uploaded' is published, whose
\* handler on the screen starts a reload
W_markUploaded(id) ==
  /\ Run(Task("work", id)) /\ work[id].pc = "markUploaded"
  /\ assets' = markUploaded(assets, id, work[id].sid)
  /\ publish("uploaded", {id})
  /\ sqlq' = Append(Tail(sqlq), Task("evreload", 0))
  /\ finishWork(id)
  /\ UNCHANGED <<seq, callVars, ui, items, delivered, attempts, touched,
                 envVars>>

\* step 6, incrementRetry: the UPDATE retries = retries + 1
W_incUpdate(id) ==
  /\ Run(Task("work", id)) /\ work[id].pc = "incUpdate"
  /\ assets' = incrementRetryUpdate(assets, id)
  /\ work' = [work EXCEPT ![id].pc = "incSelect"]
  /\ sqlq' = Append(Tail(sqlq), Task("work", id))
  /\ UNCHANGED <<seq, callVars, isProcessing, drain, activeDrains, lastCall,
                 uiVars, histVars, envVars>>

\* step 6, incrementRetry: the SELECT returns the new count, which decides
\* between setPending and markFailed; a throw ends the record's handling
W_incSelect(id) ==
  /\ Run(Task("work", id)) /\ work[id].pc = "incSelect"
  /\ LET r == incrementRetrySelect(assets, id) IN
       IF r.threw
       THEN /\ finishWork(id)
            /\ sqlq' = Tail(sqlq)
       ELSE /\ work' = [work EXCEPT ![id].ret = r.retries,
                                    ![id].pc = IF r.retries < MaxRetries
                                               THEN "setPending" ELSE "markFailed"]
            /\ sqlq' = Append(Tail(sqlq), Task("work", id))
            /\ UNCHANGED <<isProcessing, drain, activeDrains, lastCall>>
  /\ UNCHANGED <<storeVars, callVars, uiVars, histVars, envVars>>

\* step 6, new retries < maxRetries: setPending(id) has run
W_setPending(id) ==
  /\ Run(Task("work", id)) /\ work[id].pc = "setPending"
  /\ assets' = setPending(assets, id)
  /\ sqlq' = Tail(sqlq)
  /\ finishWork(id)
  /\ UNCHANGED <<seq, callVars, uiVars, histVars, envVars>>

\* step 6, new retries >= maxRetries: markFailed(id) has run; 'failed' is
\* published
W_markFailed(id) ==
  /\ Run(Task("work", id)) /\ work[id].pc = "markFailed"
  /\ assets' = markFailed(assets, id)
  /\ publish("failed", {id})
  /\ sqlq' = Tail(sqlq)
  /\ finishWork(id)
  /\ UNCHANGED <<seq, callVars, ui, items, delivered, attempts, touched,
                 envVars>>

\* ---- the environment

\* the process is killed and the application is started again: the database
\* file is all that is kept, and the screen mounts
Crash ==
  /\ crashes < MaxCrashes
  /\ crashes' = crashes + 1
  /\ isProcessing' = FALSE
  /\ drain' = NoDrain
  /\ activeDrains' = 0
  /\ lastCall' = "none"
  /\ work' = [i \in Ids |-> NoWork]
  /\ sqlq' = <<Task("mount", 0)>>
  /\ ui' = [k \in UiKinds |-> IF k = "mount" THEN [pc |-> "init", id |-> 0] ELSE NoTask]
  /\ items' = <<>>
  /\ syncingIds' = {}
  /\ failedIds' = {}
  /\ touched' = [i \in Ids |-> touched[i] \/ work[i].pc # "none"]
  /\ attempts' = [i \in Ids |-> IF work[i].pc # "none" THEN 0 ELSE attempts[i]]
  /\ lastEvent' = [i \in Ids |-> "none"]
  /\ UNCHANGED <<storeVars, callVars, delivered, resets, deletes,
                 concurrencyLimit, drainsStarted, backoff, extVars>>

Next ==
  \/ U_mountInit \/ U_mountReload
  \/ U_refresh \/ U_refreshReload
  \/ \E id \in Ids : U_retry(id) \/ U_retryReset(id) \/ U_retryReload(id)
  \/ U_capture \/ U_captureInsert \/ U_captureReload
  \/ \E id \in Ids : U_delete(id) \/ U_deleteRun(id) \/ U_deleteReload(id)
  \/ U_eventReload
  \/ \E isOnline \in BOOLEAN : D_probe(isOnline)
  \/ D_select \/ D_update \/ D_readback
  \/ \E id \in Ids : T_success(id) \/ T_fail(id)
  \/ \E id \in Ids : \/ W_markUploaded(id) \/ W_incUpdate(id) \/ W_incSelect(id)
                     \/ W_setPending(id) \/ W_markFailed(id)
  \/ Crash

Spec == AppInit /\ [][Next]_vars

\* ------------------------------------- FairSpec: the application, scheduled
\* Captures, pull-to-refresh, drains, uploads and crashes, without taps on
\* Retry or Delete.  Statements issued are run; the network signal answers
\* online again and again; the transport succeeds for a record offered again
\* and again; pull-to-refresh keeps being used.  Crashes are not scheduled
\* and are at most MaxCrashes.

FairNext ==
  \/ U_mountInit \/ U_mountReload
  \/ U_refresh \/ U_refreshReload
  \/ U_capture \/ U_captureInsert \/ U_captureReload
  \/ U_eventReload
  \/ \E isOnline \in BOOLEAN : D_probe(isOnline)
  \/ D_select \/ D_update \/ D_readback
  \/ \E id \in Ids : T_success(id) \/ T_fail(id)
  \/ \E id \in Ids : \/ W_markUploaded(id) \/ W_incUpdate(id) \/ W_incSelect(id)
                     \/ W_setPending(id) \/ W_markFailed(id)
  \/ Crash

\* the statement at the head of the queue runs
RunHead ==
  \/ U_mountInit \/ U_mountReload \/ U_refreshReload
  \/ U_captureInsert \/ U_captureReload \/ U_eventReload
  \/ D_select \/ D_update \/ D_readback
  \/ \E id \in Ids : \/ W_markUploaded(id) \/ W_incUpdate(id) \/ W_incSelect(id)
                     \/ W_setPending(id) \/ W_markFailed(id)

Fairness ==
  /\ WF_vars(RunHead)
  /\ SF_vars(U_refresh)
  /\ SF_vars(D_probe(TRUE))
  /\ \A id \in Ids : SF_vars(T_success(id))

FairSpec == AppInit /\ [][FairNext]_vars /\ Fairness

\* ------------------------------------------------------------------ claims

\* C1: for every record, serverId is non-null if and only if status is
\* 'uploaded', after any sequence of store operations.
C1_ServerIdIffUploaded ==
  \A id \in DOMAIN assets :
    (assets[id].server_id # Null) <=> (assets[id].status = "uploaded")

\* C2: reservations that interleave statement by statement never return the
\* same record id to two of them (no other write intervening).
C2_NoDoubleClaim ==
  \A p, q \in Callers :
    (/\ p # q
     /\ call[p].op = "reserve" /\ call[p].pc = "returned"
     /\ call[q].op = "reserve" /\ call[q].pc = "returned"
     /\ ~foreign)
    => Range(call[p].ids) \cap Range(call[q].ids) = {}

\* C3: at most one drain cycle is active at any time, and a processQueue or
\* enqueue call made while a drain is active starts no second drain and
\* reserves nothing: it leaves the drain, its workers and the table as they are.
C3_SingleFlight ==
  /\ [](activeDrains <= 1)
  /\ [][(isProcessing /\ lastCall' = "noop" /\ lastCall # "noop")
          => (/\ activeDrains' = activeDrains
              /\ drain' = drain
              /\ work' = work
              /\ assets' = assets
              /\ isProcessing')]_vars

\* C3 witness: a call was made while the drain was reserving, and was a no-op
C3_CallWhileActive ==
  /\ lastCall = "noop"
  /\ isProcessing
  /\ drain.pc \in {"select", "update", "readback", "dispatch"}

\* the records the in-flight drain has reserved and not resolved
Reserved ==
  IF drain.pc = "readback"
  THEN Range(drain.ids) \cap DOMAIN assets
  ELSE {i \in DOMAIN assets : work[i].pc # "none"}

\* C4: while no abnormal termination has occurred, the records whose status
\* is 'uploading' are exactly the records reserved by the in-flight drain and
\* not yet resolved by it.
C4_UploadingIffReserved ==
  crashes = 0 =>
    {i \in DOMAIN assets : assets[i].status = "uploading"} = Reserved

\* C5: the transport returns success at most once for each record.
C5_DeliveredAtMostOnce ==
  \A id \in Ids : delivered[id] <= 1

\* C6: every captured record eventually has status 'uploaded' (or is deleted).
C6_EventuallyUploaded ==
  \A id \in Ids :
    [](id \in DOMAIN assets
         => <>(id \notin DOMAIN assets \/ assets[id].status = "uploaded"))

\* C7: once the application has been initialized again after a crash, no
\* record is 'uploading' unless the running drain has reserved it: what the
\* crash left 'uploading' has been moved back to 'pending'.
C7_NoStaleUploadingAfterInit ==
  (crashes > 0 /\ ui["mount"].pc = "idle") =>
    \A id \in DOMAIN assets :
      assets[id].status = "uploading" => id \in Reserved

\* a statement counting a failed attempt of id runs in this step
IncrementStep(id) ==
  \E p \in Callers :
    \/ /\ call[p].op = "none"
       /\ call'[p].op = "incrementRetry" /\ call'[p].id = id
    \/ /\ call[p].op = "incrementRetryCapped" /\ call[p].pc = "update"
       /\ call[p].id = id
       /\ call'[p].pc = "returned"

\* C8: retries changes only by +1, when a failed attempt is counted, and to 0,
\* by resetAsset or resetFailedAssets; every counted attempt adds exactly 1.
C8_RetriesChange ==
  [][\A id \in DOMAIN assets \cap DOMAIN assets' :
       LET r == assets[id].retries
           r2 == assets'[id].retries IN
       /\ IncrementStep(id) => r2 = r + 1
       /\ r2 # r => \/ IncrementStep(id)
                    \/ r2 = 0 /\ (S_resetAsset \/ S_resetFailedAssets)]_vars

\* C9: a record that is 'failed' with retries equal to maxRetries is not
\* marked 'uploading' by a drain: it leaves 'failed' only by a reset.
C9_NoReattemptAfterTerminal ==
  [][\A id \in DOMAIN assets \cap DOMAIN assets' :
       (assets[id].status = "failed" /\ assets[id].retries = MaxRetries)
         => assets'[id].status # "uploading"]_vars

\* no reset or crash has hit the record while a worker held it, no worker
\* holds it, the drain is not reserving it, and the transport has only failed
Quiet(id) ==
  /\ ~touched[id]
  /\ work[id].pc = "none"
  /\ ~(drain.pc = "readback" /\ id \in Range(drain.ids))
  /\ delivered[id] = 0
  /\ crashes = 0

\* C10: after k failed attempts a record is 'pending' with retries k when
\* k < maxRetries, and 'failed' with retries k and a 'failed' event published
\* when k >= maxRetries; the worker goes to setPending with a new count below
\* maxRetries and to markFailed otherwise.
C10_FailureOutcome ==
  /\ \A id \in DOMAIN assets :
       Quiet(id) =>
         /\ assets[id].retries = attempts[id]
         /\ IF attempts[id] < MaxRetries
            THEN assets[id].status = "pending"
            ELSE /\ assets[id].status = "failed"
                 /\ lastEvent[id] = "failed"
                 /\ id \in failedIds
  /\ \A id \in Ids :
       /\ work[id].pc = "setPending" => work[id].ret < MaxRetries
       /\ work[id].pc = "markFailed" => work[id].ret >= MaxRetries

\* C10 witness: a record is 'failed' after exactly maxRetries failed attempts
C10_FailedAfterMaxRetries ==
  \E id \in DOMAIN assets :
    /\ Quiet(id)
    /\ attempts[id] = MaxRetries
    /\ assets[id].status = "failed"
    /\ assets[id].retries = MaxRetries
    /\ lastEvent[id] = "failed"

\* the eligible records that a reservation selects before id
EligibleBefore(a, id) ==
  {j \in DOMAIN a : j < id /\ a[j].status \in {"pending", "failed"}}

\* C11: the resetAsset(id) of handleRetry leaves the record 'pending' with
\* retries 0 whatever its status was, changes no other record, and the record
\* is then selected by a reservation that has room for it.
C11_ResetAsset ==
  [][\A id \in DOMAIN assets :
       (ui["retry"] = [pc |-> "reset", id |-> id] /\ ui'["retry"].pc = "reload")
         => /\ DOMAIN assets' = DOMAIN assets
            /\ assets'[id].status = "pending"
            /\ assets'[id].retries = 0
            /\ \A j \in DOMAIN assets \ {id} : assets'[j] = assets[j]
            /\ \A limit \in 1..MaxAssets :
                 Cardinality(EligibleBefore(assets', id)) < limit
                   => id \in Range(reserveSelect(assets', limit))]_vars

\* C11 witness: resetAsset has just run on a record that was 'uploaded'
C11_ResetOfUploaded ==
  \E id \in DOMAIN assets :
    /\ ui["retry"] = [pc |-> "reload", id |-> id]
    /\ assets[id].status = "pending"
    /\ assets[id].retries = 0
    /\ assets[id].server_id # Null

\* C12: the markUploaded of a successful delivery writes status 'uploaded' and
\* the server id of that record and nothing else: its retries and the other
\* records stay as they are, so an uploaded record keeps the retries of its
\* failed attempts (0 after a reset).
C12_MarkUploadedFrame ==
  /\ [][\A id \in DOMAIN assets :
          (work[id].pc = "markUploaded" /\ work'[id].pc = "none"
             /\ crashes' = crashes)
            => /\ DOMAIN assets' = DOMAIN assets
               /\ assets'[id].status = "uploaded"
               /\ assets'[id].server_id = work[id].sid
               /\ assets'[id].retries = assets[id].retries
               /\ \A j \in DOMAIN assets \ {id} : assets'[j] = assets[j]]_vars
  /\ [](\A id \in DOMAIN assets :
          (~touched[id] /\ assets[id].status = "uploaded")
            => assets[id].retries = attempts[id])

\* C12 witness: a record was uploaded after a failed attempt and keeps the
\* retries of it
C12_UploadedAfterFailure ==
  \E id \in DOMAIN assets :
    /\ ~touched[id]
    /\ assets[id].status = "uploaded"
    /\ assets[id].retries >= 1
    /\ attempts[id] = assets[id].retries
    /\ work[id].pc = "none"

\* C13: a processQueue call that finds the network offline changes no record,
\* reserves nothing (issues no statement, starts no worker), calls the
\* transport for no record and publishes no event; the cycle is over.
C13_OfflineNoOp ==
  /\ [][(drain.pc = "probe" /\ lastCall' = "offline")
          => /\ assets' = assets
             /\ sqlq' = sqlq
             /\ work' = work
             /\ delivered' = delivered
             /\ attempts' = attempts
             /\ lastEvent' = lastEvent
             /\ syncingIds' = syncingIds
             /\ failedIds' = failedIds]_vars
  /\ [](lastCall = "offline" => (~isProcessing /\ drain = NoDrain))

\* C13 witness: the call found the network offline with an eligible record in
\* the table, which is as it was
C13_OfflineWithEligible ==
  /\ lastCall = "offline"
  /\ \E id \in DOMAIN assets :
       /\ assets[id].status = "pending"
       /\ lastEvent[id] = "queued"
       /\ work[id].pc = "none"

\* ------------------------------------------- drains over a pending table
\* The screen is mounted and idle with the network reachable; MaxAssets
\* records were captured earlier and wait in 'pending'. processQueue and
\* enqueue are called directly, any number of times; nothing else triggers
\* a drain.

DrainInit ==
  /\ assets = [i \in 1..MaxAssets |->
                 [status |-> "pending", retries |-> 0, server_id |-> Null]]
  /\ seq = MaxAssets
  /\ call = [p \in Callers |-> NoCall]
  /\ foreign = FALSE
  /\ isProcessing = FALSE
  /\ drain = NoDrain
  /\ work = [i \in Ids |-> NoWork]
  /\ sqlq = <<>>
  /\ ui = [k \in UiKinds |-> NoTask]
  /\ items = getAllAssets(assets)
  /\ syncingIds = {}
  /\ failedIds = {}
  /\ crashes = 0
  /\ resets = 0
  /\ deletes = 0
  /\ concurrencyLimit \in 1..ConcurrencyLimit
  /\ drainsStarted = 0
  /\ backoff = NoBackoff
  /\ ExtIdle
  /\ delivered = [i \in Ids |-> 0]
  /\ attempts = [i \in Ids |-> 0]
  /\ touched = [i \in Ids |-> FALSE]
  /\ lastEvent = [i \in Ids |-> IF i \in 1..MaxAssets THEN "queued" ELSE "none"]
  /\ lastCall = "none"
  /\ activeDrains = 0

\* queueManager.processQueue(), called by any caller
P_processQueue ==
  /\ isProcessing \/ drainsStarted < MaxDrains
  /\ processQueue
  /\ drainsStarted' = IF isProcessing THEN drainsStarted ELSE drainsStarted + 1
  /\ UNCHANGED <<storeVars, callVars, work, sqlq, uiVars, histVars,
                 crashes, resets, deletes, concurrencyLimit, backoff, extVars>>

\* queueManager.enqueue(id) for a pending record, called by any caller
P_enqueue(id) ==
  /\ id \in DOMAIN assets /\ assets[id].status = "pending"
  /\ isProcessing \/ drainsStarted < MaxDrains
  /\ enqueue(id)
  /\ drainsStarted' = IF isProcessing THEN drainsStarted ELSE drainsStarted + 1
  /\ UNCHANGED <<storeVars, callVars, work, sqlq, uiVars, histVars,
                 crashes, resets, deletes, concurrencyLimit, backoff, extVars>>

DrainNext ==
  \/ P_processQueue
  \/ \E id \in Ids : P_enqueue(id)
  \/ D_probe(TRUE)
  \/ D_select \/ D_update \/ D_readback
  \/ \E id \in Ids : T_success(id) \/ T_fail(id)
  \/ \E id \in Ids : \/ W_markUploaded(id) \/ W_incUpdate(id) \/ W_incSelect(id)
                     \/ W_setPending(id) \/ W_markFailed(id)
  \/ U_eventReload

\* the statement at the head of the queue runs
DrainRunHead ==
  \/ D_select \/ D_update \/ D_readback
  \/ \E id \in Ids : \/ W_markUploaded(id) \/ W_incUpdate(id) \/ W_incSelect(id)
                     \/ W_setPending(id) \/ W_markFailed(id)
  \/ U_eventReload

\* Issued statements run, the reachability probe answers, and a transport
\* call returns. No fairness on processQueue and enqueue calls: a call is
\* an external trigger.
DrainFairness ==
  /\ WF_vars(DrainRunHead)
  /\ SF_vars(D_probe(TRUE))
  /\ \A id \in Ids : SF_vars(T_success(id) \/ T_fail(id))

DrainSpec == DrainInit /\ [][DrainNext]_vars /\ DrainFairness

\* no drain is active and no worker holds a record
DrainEnded ==
  /\ ~isProcessing /\ drain = NoDrain
  /\ \A id \in Ids : work[id].pc = "none"

\* every transport call so far has succeeded
NoFailure == \A id \in Ids : attempts[id] = 0 /\ ~touched[id]

\* the record was delivered once, holds the server's id and its last event
\* is the one 'uploaded' event of that delivery
UploadedOnce(id) ==
  /\ assets[id].status = "uploaded"
  /\ assets[id].server_id # Null
  /\ delivered[id] = 1
  /\ lastEvent[id] = "uploaded"

Dispatched(id) == lastEvent[id] \in {"uploading", "uploaded", "failed"}

CaptureNext ==
  \/ U_mountInit \/ U_mountReload
  \/ U_refresh \/ U_refreshReload
  \/ U_capture \/ U_captureInsert \/ U_captureReload
  \/ U_eventReload
  \/ D_probe(TRUE)
  \/ D_select \/ D_update \/ D_readback
  \/ \E id \in Ids : T_success(id) \/ T_fail(id)
  \/ \E id \in Ids : \/ W_markUploaded(id) \/ W_incUpdate(id) \/ W_incSelect(id)
                     \/ W_setPending(id) \/ W_markFailed(id)

\* Issued statements run, the reachability check answers, and a transport
\* call returns. No fairness on captures or on pull-to-refresh: both are
\* the user's.
CaptureFairness ==
  /\ WF_vars(RunHead)
  /\ SF_vars(D_probe(TRUE))
  /\ \A id \in Ids : SF_vars(T_success(id) \/ T_fail(id))

CaptureSpec == AppInit /\ [][CaptureNext]_vars /\ CaptureFairness

PubQueued(id) == id \notin DOMAIN assets /\ id \in DOMAIN assets'
PubUploading(id) == work[id].pc = "none" /\ work'[id].pc = "inflight"
PubUploaded(id) ==
  work[id].pc = "markUploaded" /\ work'[id].pc = "none" /\ crashes' = crashes
PubFailed(id) ==
  work[id].pc = "markFailed" /\ work'[id].pc = "none" /\ crashes' = crashes

Dispatches(id) ==
  attempts[id] + delivered[id] + (IF work[id].pc = "inflight" THEN 1 ELSE 0)

\* C18: an enqueue (or processQueue) call that finds the drain of an earlier
\* call active changes nothing, no call writes to the store, and a record is
\* reserved and dispatched at most once per drain started, exactly once by
\* the one drain that two successive enqueue calls start.
C18_EnqueueIdempotent ==
  /\ [][/\ (lastCall # "noop" /\ lastCall' = "noop")
             => UNCHANGED <<assets, seq, isProcessing, drain, work, sqlq,
                            activeDrains, drainsStarted, histVars>>
        /\ (lastCall # "started" /\ lastCall' = "started")
             => UNCHANGED <<assets, seq, work, sqlq, histVars>>]_vars
  /\ [](\A id \in Ids : Dispatches(id) <= drainsStarted)
  /\ []((drainsStarted = 1 /\ DrainEnded)
          => \A id \in 1..concurrencyLimit : Dispatches(id) = 1)

\* the second of two calls found the drain of the first active, before the
\* drain did anything; record 1 is pending
C18_SecondCallNoop ==
  /\ lastCall = "noop" /\ drainsStarted = 1
  /\ isProcessing /\ drain.pc = "probe"
  /\ assets[1].status = "pending"

\* the step in which the transport call of record id fails or throws
Fails(id) == work[id].pc = "inflight" /\ work'[id].pc = "incUpdate"

\* the step in which a drain that reserved records runs to completion
DrainCompletes ==
  /\ isProcessing /\ ~isProcessing'
  /\ drain.pc = "dispatch"
  /\ crashes' = crashes

\* C19: the failure of one record's upload leaves every other record of the
\* drain as it is, at the transport or being settled, and when the drain
\* completes every record it reserved that is still in the table is
\* 'uploaded', 'pending' or 'failed', none 'uploading'.
C19_FailureIsolated ==
  [][/\ \A i, j \in Ids :
          (Fails(i) /\ i # j)
            => /\ work'[j] = work[j]
               /\ j \in DOMAIN assets => assets'[j] = assets[j]
               /\ isProcessing' /\ drain' = drain
     /\ DrainCompletes
          => \A id \in Range(drain.ids) \cap DOMAIN assets' :
               assets'[id].status \in {"uploaded", "pending", "failed"}]_vars

\* record 1 failed and was put back to 'pending' while record 2, reserved
\* by the same drain, is still at the transport
C19_SiblingStillInFlight ==
  /\ isProcessing /\ drain.pc = "dispatch" /\ drain.ids = <<1, 2>>
  /\ work[1].pc = "none" /\ attempts[1] = 1
  /\ assets[1].status = "pending" /\ assets[1].retries = 1
  /\ work[2].pc = "inflight" /\ assets[2].status = "uploading"

\* the records whose transport call is in flight
InFlight == {id \in Ids : work[id].pc = "inflight"}

\* C20: at every instant at most concurrencyLimit transport calls are in
\* flight, and the records a drain reserved are all dispatched in the same
\* step, none waiting for another's call to finish.
C20_BoundedParallelDispatch ==
  /\ [](Cardinality(InFlight) <= concurrencyLimit)
  /\ [][(drain.pc = "readback" /\ drain'.pc = "dispatch")
          => /\ \A id \in Range(drain.ids) : work'[id].pc = "inflight"
             /\ Cardinality(Range(drain.ids)) <= concurrencyLimit]_vars

\* with concurrencyLimit 2 the calls of both reserved records are in flight
\* at once
C20_TwoInFlight ==
  /\ concurrencyLimit = 2
  /\ InFlight = {1, 2}
  /\ drain.pc = "dispatch" /\ drain.ids = <<1, 2>>

\* the eligible records of table a
Eligible(a) == {i \in DOMAIN a : a[i].status \in {"pending", "failed"}}

\* C21: a reservation with limit L over a table with E eligible records
\* returns min(L, E) rows, those of the eligible records of smallest id, in
\* ascending id order and each with status 'uploading'; the table holds them
\* as 'uploading' and every other row, and every other column, as before.
C21_ReservationResult ==
  \A L \in 0..(MaxAssets + 1) :
    LET r == reservePendingAssets(assets, L)
        E == Cardinality(Eligible(assets))
        n == IF L < E THEN L ELSE E
        got == {r.rows[k].id : k \in 1..Len(r.rows)}
    IN /\ Len(r.rows) = n
       /\ Cardinality(got) = n
       /\ got \subseteq Eligible(assets)
       /\ \A i \in got : \A j \in Eligible(assets) \ got : i < j
       /\ \A k \in 1..(Len(r.rows) - 1) : r.rows[k].id < r.rows[k + 1].id
       /\ \A k \in 1..Len(r.rows) :
            /\ r.rows[k].status = "uploading"
            /\ r.rows[k].retries = assets[r.rows[k].id].retries
            /\ r.rows[k].serverId = assets[r.rows[k].id].server_id
       /\ DOMAIN r.store = DOMAIN assets
       /\ \A i \in got : r.store[i] = [assets[i] EXCEPT !.status = "uploading"]
       /\ \A i \in DOMAIN assets \ got : r.store[i] = assets[i]

\* a reservation of one record over a table with two eligible ones returned
\* record 1, with no other write between its statements; record 2 was left
C21_ReservedLowestOfTwo ==
  \E p \in Callers :
    /\ call[p].op = "reserve" /\ call[p].pc = "returned" /\ call[p].ids = <<1>>
    /\ \A q \in Callers \ {p} : call[q].op = "none"
    /\ ~foreign
    /\ DOMAIN assets = {1, 2}
    /\ assets[1].status = "uploading"
    /\ assets[2].status = "failed" /\ assets[2].retries = MaxRetries

\* C22: a record whose status is 'uploaded' keeps that status for as long as
\* it is in the table.
C22_UploadedIsTerminal ==
  [][\A id \in DOMAIN assets :
       (assets[id].status = "uploaded" /\ id \in DOMAIN assets')
         => assets'[id].status = "uploaded"]_vars

\* C23: a deleted record stays absent, also when the upload that was in
\* flight for it completes, and the store calls the drain makes for the
\* deleted id on that completion raise no error.
C23_DeleteInFlight ==
  /\ [][\A id \in 1..seq : id \notin DOMAIN assets => id \notin DOMAIN assets']_vars
  /\ [](\A id \in Ids :
          work[id].pc = "incSelect" => ~incrementRetrySelect(assets, id).threw)

\* ----------------------------------------------- drains with store errors
\* a drain-level failure aborts the drain cycle: the single-flight flag is
\* released and the error goes to the caller
abortDrain ==
  /\ isProcessing' = FALSE
  /\ drain' = NoDrain
  /\ activeDrains' = activeDrains - 1
  /\ lastCall' = "aborted"

\* reservePendingAssets: execSql rejects for the statement at hand, whose
\* transaction changes nothing; the statements that ran before it stay
D_storeError ==
  /\ Run(Task("drain", 0)) /\ drain.pc \in {"select", "update", "readback"}
  /\ sqlq' = Tail(sqlq)
  /\ abortDrain
  /\ UNCHANGED <<storeVars, callVars, work, uiVars, histVars, envVars>>

FaultNext == DrainNext \/ D_storeError

FaultSpec == DrainInit /\ [][FaultNext]_vars /\ DrainFairness

\* C24: after a reservation that failed at one of its statements the drain
\* is over, the flag is released, no record is 'uploading' and the eligible
\* records are those of before the failed drain.
C24_FailedReservationLeavesNoUploading ==
  lastCall = "aborted"
    => /\ ~isProcessing /\ drain = NoDrain
       /\ \A id \in DOMAIN assets : assets[id].status # "uploading"

\* C25: a transport call in flight eventually ends, in success or in a
\* failure that is counted in retries, the worker of every dispatched record
\* eventually finishes, and an active drain eventually becomes inactive.
C25_DrainTerminates ==
  /\ \A id \in Ids : (work[id].pc = "inflight") ~> (work[id].pc # "inflight")
  /\ \A id \in Ids : (work[id].pc # "none") ~> (work[id].pc = "none")
  /\ isProcessing ~> ~isProcessing
  /\ [][\A id \in DOMAIN assets :
          (work[id].pc = "incUpdate" /\ work'[id].pc = "incSelect")
            => assets'[id].retries = assets[id].retries + 1]_vars

\* a second drain is active after a first one in which record 1 failed
C25_SecondDrainAfterFailure ==
  /\ drainsStarted = 2 /\ isProcessing
  /\ attempts[1] = 1 /\ assets[1].retries = 1
  /\ work[1].pc = "inflight"

\* C26: the id insertAsset returns is greater than the id of every record
\* inserted before, deleted or not; no id is given twice.
C26_IdsNeverReused ==
  /\ [][\A id \in Ids :
          (id \notin DOMAIN assets /\ id \in DOMAIN assets')
            => /\ id > seq
               /\ \A j \in DOMAIN assets : id > j
               /\ seq' = id]_vars
  /\ [][seq' >= seq]_vars
  /\ [](\A id \in DOMAIN assets : id <= seq)

\* record 1 was deleted, and the record captured after the deletion was
\* done has id 2
C26_InsertAfterDelete ==
  /\ DOMAIN assets = {2} /\ seq = 2
  /\ deletes = 1 /\ ui["delete"] = NoTask
  /\ ui["capture"] = [pc |-> "reload", id |-> 2]

\* ------------------------------------------------------ the backoff policy
RECURSIVE Power(_, _)
Power(m, n) == IF n = 0 THEN 1 ELSE m * Power(m, n - 1)

\* base * multiplier^retryCount without the clamp
delay_unclamped(cfg, retryCount) ==
  cfg.baseDelay * Power(cfg.multiplier, retryCount)

\* delay(retryCount): base * multiplier^retryCount, clamped to the maximum
delay(cfg, retryCount) ==
  LET d == cfg.baseDelay * Power(cfg.multiplier, retryCount)
  IN IF d < cfg.maxDelay THEN d ELSE cfg.maxDelay

\* a configuration with a base delay of at least 1, a multiplier of at least
\* 1 and a maximum delay not below the base delay; the policy has answered
\* for retry count 0
BackoffInit ==
  /\ assets = <<>>
  /\ seq = 0
  /\ call = [p \in Callers |-> NoCall]
  /\ foreign = FALSE
  /\ Quiescent
  /\ \E b \in 1..MaxBaseDelay, m \in 1..MaxMultiplier :
       \E x \in b..MaxDelayCap :
         LET cfg == [baseDelay |-> b, multiplier |-> m, maxDelay |-> x] IN
         backoff = [baseDelay |-> b, multiplier |-> m, maxDelay |-> x,
                    retryCount |-> 0, delay |-> delay(cfg, 0),
                    previous |-> delay(cfg, 0)]

\* the policy is asked for the delay of the next retry count
B_delay ==
  /\ backoff.retryCount < MaxRetryCount
  /\ backoff' = [backoff EXCEPT !.retryCount = @ + 1,
                                !.previous = backoff.delay,
                                !.delay = delay(backoff, backoff.retryCount + 1)]
  /\ UNCHANGED <<storeVars, callVars, qmVars, uiVars, histVars, sqlq,
                 crashes, resets, deletes, concurrencyLimit, drainsStarted,
                 extVars>>

BackoffNext == B_delay

BackoffSpec == BackoffInit /\ [][BackoffNext]_vars

C29_ReservationMarksOnlyEligible ==
  [][\A p \in Callers :
       (call[p].op = "reserve" /\ call[p].pc = "update" /\ call'[p].pc = "readback")
         => \A id \in Range(call[p].ids) \cap DOMAIN assets :
              assets[id].status \in {"pending", "failed"}]_vars

\* C30: when no statement is waiting and no drain is active, so that every
\* published event has been handled, every record of the store whose id is
\* in failedIds has status 'failed'.
C30_FailedIdsFollowStore ==
  (sqlq = <<>> /\ ~isProcessing)
    => \A id \in failedIds \cap DOMAIN assets : assets[id].status = "failed"

\* ---------------------------------------------------------------- C31
\* C31: the screen's syncingIds set does not drift from the store: whenever no
\* drain is active and every issued statement and event has been handled,
\* syncingIds is empty, also after a delivery attempt that failed below
\* maxRetries and reverted the record to 'pending'.
C31_SyncingIdsEmptyWhenIdle ==
  (~isProcessing /\ sqlq = <<>> /\ \A i \in Ids : work[i].pc = "none")
    => syncingIds = {}

\* ---------------------------------------------------------------- C35
\* C35: in every reachable state every record's retries is at most
\* maxRetries, whatever the sequence of failing drains, resets and
\* reservations of 'failed' records.
C35_RetriesAtMostMax ==
  \A id \in DOMAIN assets : assets[id].retries <= MaxRetries

\* ---------------------------------------------------------------- C36
\* C36: in every reachable state a record whose status is 'failed' has
\* retries at least maxRetries, also when a resetAsset runs between the retry
\* increment and the markFailed of a failure being handled.
C36_FailedHasMaxRetries ==
  \A id \in DOMAIN assets :
    assets[id].status = "failed" => assets[id].retries >= MaxRetries

\* ------------------------------------ RetrySpec: the retry counter's callers
\* incrementRetry and incrementRetryCapped, made by concurrent callers on a
\* record that is being uploaded, with resetAsset and deleteAsset running
\* between their statements.  Every statement is a transaction of its own.

\* what the retry-counter calls leave alone
retryFrame ==
  <<seq, foreign, qmVars, uiVars, histVars, sqlq, tapVars, lastOp, userVars>>

RetryInit ==
  /\ \E r \in 0..MaxRetries :
       /\ assets = [i \in {1} |->
                      [status |-> "uploading", retries |-> r, server_id |-> Null]]
       /\ retryHist = [NoRetryHist EXCEPT !.initial[1] = r]
  /\ seq = 1
  /\ call = [p \in Callers |-> NoCall]
  /\ foreign = FALSE
  /\ isProcessing = FALSE
  /\ drain = NoDrain
  /\ work = [i \in Ids |-> NoWork]
  /\ sqlq = <<>>
  /\ ui = [k \in UiKinds |-> NoTask]
  /\ items = <<>>
  /\ syncingIds = {}
  /\ failedIds = {}
  /\ crashes = 0
  /\ resets = 0
  /\ deletes = 0
  /\ concurrencyLimit = ConcurrencyLimit
  /\ drainsStarted = 0
  /\ backoff = NoBackoff
  /\ lastOp = NoOp
  /\ UserIdle
  /\ delivered = [i \in Ids |-> 0]
  /\ attempts = [i \in Ids |-> 0]
  /\ touched = [i \in Ids |-> FALSE]
  /\ lastEvent = [i \in Ids |-> "none"]
  /\ lastCall = "none"
  /\ activeDrains = 0

\* incrementRetry(id), statement 1
R_incrementRetryUpdate(p) ==
  /\ call[p].op = "none"
  /\ \E id \in DOMAIN assets :
       /\ assets[id].retries < RetryCap
       /\ assets' = incrementRetryUpdate(assets, id)
       /\ call' = [call EXCEPT ![p] =
                     [NoCall EXCEPT !.op = "incrementRetry", !.pc = "select", !.id = id]]
       /\ retryHist' = [retryHist EXCEPT !.pre[p] = assets[id].retries,
                                         !.mixed[id] = TRUE]
  /\ UNCHANGED retryFrame

\* incrementRetry(id), statement 2, and the return of its result
R_incrementRetrySelect(p) ==
  /\ call[p].op = "incrementRetry" /\ call[p].pc = "select"
  /\ call' = [call EXCEPT ![p].pc = "returned",
                          ![p].ret = incrementRetrySelect(assets, call[p].id)]
  /\ UNCHANGED <<assets, retryHist, retryFrame>>

\* incrementRetryCapped(id, maxRetries): the read; at the cap it returns
R_incrementRetryCappedSelect(p) ==
  /\ call[p].op = "none"
  /\ \E id \in DOMAIN assets :
       LET current == incrementRetryCappedSelect(assets, id) IN
       /\ retryHist.calls[id] < MaxCalls
       /\ call' = [call EXCEPT ![p] =
                     IF current >= MaxRetries
                     THEN [NoCall EXCEPT !.op = "incrementRetryCapped", !.pc = "returned",
                                         !.id = id, !.ret.retries = current]
                     ELSE [NoCall EXCEPT !.op = "incrementRetryCapped", !.pc = "update",
                                         !.id = id, !.ret.retries = current]]
       /\ retryHist' = [retryHist EXCEPT !.pre[p] = current,
                                         !.calls[id] = @ + 1]
  /\ UNCHANGED <<assets, retryFrame>>

\* incrementRetryCapped: the write of current + 1, and the return of it
R_incrementRetryCappedUpdate(p) ==
  /\ call[p].op = "incrementRetryCapped" /\ call[p].pc = "update"
  /\ assets' = incrementRetryCappedUpdate(assets, call[p].id, call[p].ret.retries)
  /\ call' = [call EXCEPT ![p].pc = "returned", ![p].ret.retries = @ + 1]
  /\ UNCHANGED <<retryHist, retryFrame>>

\* resetAsset(id), by the user's Retry
R_resetAsset ==
  \E id \in DOMAIN assets :
    /\ assets' = resetAsset(assets, id)
    /\ retryHist' = [retryHist EXCEPT !.mixed[id] = TRUE]
    /\ UNCHANGED <<call, retryFrame>>

\* deleteAsset(id), by an administrator's Delete
R_deleteAsset ==
  \E id \in DOMAIN assets :
    /\ assets' = deleteAsset(assets, id)
    /\ retryHist' = [retryHist EXCEPT !.mixed[id] = TRUE]
    /\ UNCHANGED <<call, retryFrame>>

\* the caller is done with what its call returned
R_return(p) ==
  /\ call[p].pc = "returned"
  /\ call' = [call EXCEPT ![p] = NoCall]
  /\ retryHist' = [retryHist EXCEPT !.pre[p] = -1]
  /\ UNCHANGED <<assets, retryFrame>>

RetryNext ==
  \/ \E p \in Callers : R_incrementRetryUpdate(p)
  \/ \E p \in Callers : R_incrementRetrySelect(p)
  \/ \E p \in Callers : R_incrementRetryCappedSelect(p)
  \/ \E p \in Callers : R_incrementRetryCappedUpdate(p)
  \/ R_resetAsset
  \/ R_deleteAsset
  \/ \E p \in Callers : R_return(p)

RetrySpec == RetryInit /\ [][RetryNext]_vars

\* ---------------------------------------------------------------- C32
\* C32: incrementRetry(id) returns exactly the retries value its own
\* increment produced, the value before the call plus 1, also when a
\* resetAsset, another incrementRetry or a deleteAsset on the same id runs
\* between its update statement and its read-back statement.
C32_ReturnsOwnIncrement ==
  \A p \in Callers :
    (call[p].op = "incrementRetry" /\ call[p].pc = "returned")
      => /\ ~call[p].ret.threw
         /\ call[p].ret.retries = retryHist.pre[p] + 1

\* a capped call on record id is between its read and its write
CappedOpen(id) ==
  \E p \in Callers :
    call[p].op = "incrementRetryCapped" /\ call[p].pc = "update" /\ call[p].id = id

\* ---------------------------------------------------------------- C38
\* C38: incrementRetryCapped(id, maxRetries) raises retries by exactly 1 when
\* the stored value is below maxRetries and leaves it unchanged otherwise,
\* returning the stored value; when N calls for the same id interleave
\* between their read and their write, retries ends at
\* min(initial + N, maxRetries): no increment is lost.
C38_NoLostIncrement ==
  /\ \A p \in Callers :
       (call[p].op = "incrementRetryCapped" /\ call[p].pc = "returned")
         => call[p].ret.retries =
              IF retryHist.pre[p] < MaxRetries
              THEN retryHist.pre[p] + 1 ELSE retryHist.pre[p]
  /\ \A id \in DOMAIN assets :
       (~retryHist.mixed[id] /\ ~CappedOpen(id))
         => assets[id].retries =
              Min({retryHist.initial[id] + retryHist.calls[id], MaxRetries})

\* ------------------------------ MaintSpec: start-up and bulk maintenance
\* initializeSchema and resetFailedAssets applied, in any order and any
\* number of times, to a table of up to MaxAssets records of any status, whose
\* uploaded records carry the server id the transport assigned.

\* the tables of n records in which server_id is set exactly on the uploaded
\* records
Tables(n) ==
  {a \in [1..n -> [status : Statuses, retries : 0..MaxRetries,
                   server_id : ServerIdPool \cup {Null}]] :
     \A i \in 1..n : (a[i].server_id # Null) <=> (a[i].status = "uploaded")}

MaintInit ==
  /\ \E n \in 1..MaxAssets : assets \in Tables(n) /\ seq = n
  /\ call = [p \in Callers |-> NoCall]
  /\ foreign = FALSE
  /\ Quiescent
  /\ backoff = NoBackoff

\* what the maintenance operations leave alone
maintFrame ==
  <<seq, callVars, qmVars, uiVars, histVars, sqlq, tapVars, retryHist, userVars>>

\* start-up: initializeSchema()
M_initializeSchema ==
  /\ assets' = initializeSchema(assets)
  /\ lastOp' = [op |-> "initializeSchema", before |-> assets]
  /\ UNCHANGED maintFrame

\* resetFailedAssets()
M_resetFailedAssets ==
  /\ assets' = resetFailedAssets(assets)
  /\ lastOp' = [op |-> "resetFailedAssets", before |-> assets]
  /\ UNCHANGED maintFrame

MaintNext == M_initializeSchema \/ M_resetFailedAssets

MaintSpec == MaintInit /\ [][MaintNext]_vars

\* ---------------------------------------------------------------- C33
\* C33: resetFailedAssets sets status 'pending' and retries 0 on every record
\* whose status is 'failed' and leaves every record that is 'pending',
\* 'uploading' or 'uploaded' unchanged in status, retries and serverId.
C33_ResetFailedFrame ==
  lastOp.op = "resetFailedAssets"
    => /\ DOMAIN assets = DOMAIN lastOp.before
       /\ \A i \in DOMAIN assets :
            IF lastOp.before[i].status = "failed"
            THEN assets[i].status = "pending" /\ assets[i].retries = 0
            ELSE /\ assets[i].status = lastOp.before[i].status
                 /\ assets[i].retries = lastOp.before[i].retries
                 /\ assets[i].server_id = lastOp.before[i].server_id

\* a failed record with retries was reset next to an uploaded record and a
\* pending record with retries, which were left as they were
C33_ResetBesideOthers ==
  /\ lastOp.op = "resetFailedAssets"
  /\ \E i \in DOMAIN assets :
       /\ lastOp.before[i].status = "failed" /\ lastOp.before[i].retries > 0
       /\ assets[i].status = "pending" /\ assets[i].retries = 0
  /\ \E j \in DOMAIN assets :
       /\ lastOp.before[j].status \in {"uploaded", "pending"}
       /\ lastOp.before[j].retries > 0
       /\ assets[j] = lastOp.before[j]

ServerIdIffUploaded(a) ==
  \A i \in DOMAIN a : (a[i].server_id # Null) <=> (a[i].status = "uploaded")

\* ---------------------------------------------------------------- C37
\* C37: initializeSchema, run at a start-up on a store in which every record
\* has serverId non-null if and only if its status is 'uploaded', leaves a
\* store that still satisfies it and changes the status and retries of no
\* record; running it twice has the same effect as running it once.
C37_InitializeSchemaKeepsStore ==
  (lastOp.op = "initializeSchema" /\ ServerIdIffUploaded(lastOp.before))
    => /\ ServerIdIffUploaded(assets)
       /\ DOMAIN assets = DOMAIN lastOp.before
       /\ \A i \in DOMAIN assets :
            /\ assets[i].status = lastOp.before[i].status
            /\ assets[i].retries = lastOp.before[i].retries
       /\ initializeSchema(assets) = assets

\* --------------------------- NavSpec: the screen left and entered mid-drain
\* The capture screen is unmounted and mounted again while the queue manager,
\* which is not a part of the screen, keeps running: the new instance starts
\* with empty items, syncingIds and failedIds, subscribes its handlers and
\* runs its mount effect.  With it the drains of DrainSpec and the Retry
\* button.

\* the screen is unmounted (its handlers are unsubscribed) and mounted again
U_remount ==
  /\ \A k \in UiKinds : ui[k] = NoTask
  /\ \A j \in 1..Len(sqlq) : sqlq[j].t = "work"
  /\ QueueFree
  /\ items' = <<>>
  /\ syncingIds' = {}
  /\ failedIds' = {}
  /\ ui' = [ui EXCEPT !["mount"] = [pc |-> "init", id |-> 0]]
  /\ sqlq' = Append(sqlq, Task("mount", 0))
  /\ UNCHANGED <<storeVars, callVars, qmVars, histVars, envVars>>

NavNext ==
  \/ DrainNext
  \/ U_remount \/ U_mountInit \/ U_mountReload
  \/ \E id \in Ids : U_retry(id) \/ U_retryReset(id) \/ U_retryReload(id)

NavSpec == DrainInit /\ [][NavNext]_vars

\* ------------------------------------------- UserSpec: the accounts (users.ts)
\* Table users with registerUser and createOrGetSuperAdmin, which run while
\* no one is logged in, and the user-management screen of the user who is:
\* handlePromoteUser and handleDeleteUser decide on the list item as last
\* loaded and on the props; what they issue runs later, in the order issued.

Max(S) == CHOOSE x \in S : \A y \in S : x >= y

RECURSIVE toString(_)
\* the decimal digits of a row id, as AuthUser.id holds it
toString(n) ==
  IF n < 10 THEN <<n>> ELSE Append(toString(n \div 10), n % 10)

RECURSIVE parseInt(_)
\* parseInt(s, 10) of a string of digits; -1 stands for NaN
parseInt(s) ==
  IF s = <<>> THEN -1
  ELSE IF Len(s) = 1 THEN s[1]
  ELSE 10 * parseInt(SubSeq(s, 1, Len(s) - 1)) + s[Len(s)]

\* INTEGER PRIMARY KEY without AUTOINCREMENT: one more than the largest id
newUserId(u) == IF DOMAIN u = {} THEN 1 ELSE Max(DOMAIN u) + 1

\* SELECT * FROM users WHERE email = ?  (the row's id, 0 for none)
getUserByEmail(u, email) ==
  IF \E i \in DOMAIN u : u[i].email = email
  THEN CHOOSE i \in DOMAIN u : u[i].email = email ELSE 0

\* SELECT * FROM users WHERE username = ?  (the row's id, 0 for none)
getUserByUsername(u, username) ==
  IF \E i \in DOMAIN u : u[i].username = username
  THEN CHOOSE i \in DOMAIN u : u[i].username = username ELSE 0

\* INSERT INTO users (email, username, ..., role, ...): email and username
\* are UNIQUE
insertUser(u, email, username, role) ==
  [i \in DOMAIN u \cup {newUserId(u)} |->
     IF i \in DOMAIN u THEN u[i]
     ELSE [email |-> email, username |-> username, role |-> role]]

\* UPDATE users SET role = ?, updatedAt = ? WHERE id = ?
updateUserRole(u, id, role) ==
  [i \in DOMAIN u |-> IF i = id THEN [u[i] EXCEPT !.role = role] ELSE u[i]]

\* DELETE FROM users WHERE id = ?
deleteUser(u, id) == [i \in DOMAIN u \ {id} |-> u[i]]

\* SELECT * FROM users, as the screen uses it: role by id
getAllUsers(u) == [i \in DOMAIN u |-> u[i].role]

\* handlePromoteUser(user): the role its dialog offers to set, "none" when it
\* offers nothing
handlePromoteUser(role, super) ==
  IF super
  THEN CASE role = "admin" -> "user"
         [] role = "user" -> "admin"
         [] OTHER -> "none"
  ELSE CASE role = "superadmin" -> "none"
         [] role = "admin" -> "none"
         [] OTHER -> "admin"

\* handleDeleteUser that lets any acting user delete
handleDeleteUser_anyActingUser(id, role, super) ==
  /\ id # parseInt(currentUser.id)
  /\ role # "superadmin"

\* handleDeleteUser(user): whether its dialog offers the deletion
handleDeleteUser(id, role, super) ==
  /\ id # parseInt(currentUser.id)
  /\ role # "superadmin"
  /\ super

\* what the account operations leave alone
userFrame ==
  <<storeVars, callVars, qmVars, uiVars, histVars, sqlq, tapVars, retryHist, lastOp>>

UserInit ==
  /\ assets = <<>>
  /\ seq = 0
  /\ call = [p \in Callers |-> NoCall]
  /\ foreign = FALSE
  /\ AppIdle

\* registerUser(email, username, password) by the signup screen
U_registerUser ==
  /\ currentUser = Null
  /\ \E email \in Names, username \in Names :
       /\ getUserByEmail(users, email) = 0
       /\ getUserByUsername(users, username) = 0
       /\ newUserId(users) <= MaxUserId
       /\ users' = insertUser(users, email, username, "user")
  /\ UNCHANGED <<currentUser, isSuperAdmin, userScreen, superCall, userHist, userFrame>>

\* createOrGetSuperAdmin(email, username) is called
SA_call ==
  /\ currentUser = Null
  /\ superCall.pc = "idle"
  /\ userHist.calls < MaxSuperCalls
  /\ \E email \in Names, username \in Names :
       superCall' = [NoSuperCall EXCEPT !.pc = "byEmail", !.email = email,
                                        !.username = username]
  /\ userHist' = [userHist EXCEPT !.calls = @ + 1]
  /\ UNCHANGED <<users, currentUser, isSuperAdmin, userScreen, userFrame>>

\* createOrGetSuperAdmin: getUserByEmail(email) returns
SA_byEmail ==
  /\ superCall.pc = "byEmail"
  /\ LET id == getUserByEmail(users, superCall.email) IN
       superCall' =
         IF id = 0 THEN [superCall EXCEPT !.pc = "byUsername"]
         ELSE IF users[id].role # "superadmin"
         THEN [superCall EXCEPT !.pc = "update", !.id = id]
         ELSE [superCall EXCEPT !.pc = "returned", !.id = id, !.ret = users[id].role]
  /\ UNCHANGED <<users, currentUser, isSuperAdmin, userScreen, userHist, userFrame>>

\* createOrGetSuperAdmin: getUserByUsername(username) returns
SA_byUsername ==
  /\ superCall.pc = "byUsername"
  /\ LET id == getUserByUsername(users, superCall.username) IN
       superCall' =
         IF id = 0 THEN [superCall EXCEPT !.pc = "insert"]
         ELSE IF users[id].role # "superadmin"
         THEN [superCall EXCEPT !.pc = "update", !.id = id]
         ELSE [superCall EXCEPT !.pc = "returned", !.id = id, !.ret = users[id].role]
  /\ UNCHANGED <<users, currentUser, isSuperAdmin, userScreen, userHist, userFrame>>

\* createOrGetSuperAdmin: updateUserRole(existing.id, "superadmin") returns
\* the row as updated, or rejects when the row is gone
SA_update ==
  /\ superCall.pc = "update"
  /\ IF superCall.id \in DOMAIN users
     THEN /\ users' = updateUserRole(users, superCall.id, "superadmin")
          /\ superCall' = [superCall EXCEPT !.pc = "returned",
                                            !.ret = users'[superCall.id].role]
          /\ userHist' = [userHist EXCEPT !.changed =
                            [email |-> users[superCall.id].email,
                             given |-> superCall.email]]
     ELSE /\ superCall' = [superCall EXCEPT !.pc = "threw"]
          /\ UNCHANGED <<users, userHist>>
  /\ UNCHANGED <<currentUser, isSuperAdmin, userScreen, userFrame>>

\* createOrGetSuperAdmin: the INSERT with role 'superadmin' and the read of
\* the new row; the INSERT fails on a UNIQUE column
SA_insert ==
  /\ superCall.pc = "insert"
  /\ newUserId(users) <= MaxUserId
  /\ IF /\ getUserByEmail(users, superCall.email) = 0
        /\ getUserByUsername(users, superCall.username) = 0
     THEN /\ users' = insertUser(users, superCall.email, superCall.username,
                                 "superadmin")
          /\ superCall' = [superCall EXCEPT !.pc = "returned",
                                            !.id = newUserId(users),
                                            !.ret = users'[newUserId(users)].role]
          /\ userHist' = [userHist EXCEPT
                            !.created[<<superCall.email, superCall.username>>] = @ + 1]
     ELSE /\ superCall' = [superCall EXCEPT !.pc = "threw"]
          /\ UNCHANGED <<users, userHist>>
  /\ UNCHANGED <<currentUser, isSuperAdmin, userScreen, userFrame>>

\* the caller has the result of createOrGetSuperAdmin
SA_return ==
  /\ superCall.pc \in {"returned", "threw"}
  /\ superCall' = NoSuperCall
  /\ UNCHANGED <<users, currentUser, isSuperAdmin, userScreen, userHist, userFrame>>

\* a user logs in and opens the user-management screen: useEffect issues
\* loadUsers()
UM_mount ==
  /\ currentUser = Null
  /\ superCall.pc = "idle"
  /\ \E id \in DOMAIN users :
       /\ currentUser' = [id |-> toString(id), role |-> users[id].role]
       /\ isSuperAdmin' = (users[id].role = "superadmin")
  /\ userScreen' = [users |-> <<>>, queue |-> <<[op |-> "load", id |-> 0, role |-> "none"]>>]
  /\ UNCHANGED <<users, superCall, userHist, userFrame>>

\* the user logs out
UM_unmount ==
  /\ currentUser # Null
  /\ userScreen.queue = <<>>
  /\ currentUser' = Null
  /\ isSuperAdmin' = FALSE
  /\ userScreen' = NoScreen
  /\ UNCHANGED <<users, superCall, userHist, userFrame>>

\* handlePromoteUser(item) and the dialog's Promote or Demote:
\* updateUserRole is issued
UM_promote ==
  /\ currentUser # Null
  /\ Len(userScreen.queue) < MaxUserQueue
  /\ \E id \in DOMAIN userScreen.users :
       LET role == handlePromoteUser(userScreen.users[id], isSuperAdmin) IN
       /\ role # "none"
       /\ userScreen' = [userScreen EXCEPT !.queue =
                           Append(@, [op |-> "role", id |-> id, role |-> role])]
  /\ UNCHANGED <<users, currentUser, isSuperAdmin, superCall, userHist, userFrame>>

\* handleDeleteUser(item) and the dialog's Delete: deleteUser is issued
UM_delete ==
  /\ currentUser # Null
  /\ Len(userScreen.queue) < MaxUserQueue
  /\ \E id \in DOMAIN userScreen.users :
       /\ handleDeleteUser(id, userScreen.users[id], isSuperAdmin)
       /\ userScreen' = [userScreen EXCEPT !.queue =
                           Append(@, [op |-> "delete", id |-> id, role |-> "none"])]
  /\ UNCHANGED <<users, currentUser, isSuperAdmin, superCall, userHist, userFrame>>

\* loadUsers(): getAllUsers() returns
UM_load ==
  /\ userScreen.queue # <<>> /\ Head(userScreen.queue).op = "load"
  /\ userScreen' = [users |-> getAllUsers(users), queue |-> Tail(userScreen.queue)]
  /\ UNCHANGED <<users, currentUser, isSuperAdmin, superCall, userHist, userFrame>>

\* updateUserRole(user.id, role) returns and loadUsers() is issued; it
\* rejects, and nothing is issued, when the row is gone
UM_updateUserRole ==
  /\ userScreen.queue # <<>> /\ Head(userScreen.queue).op = "role"
  /\ LET t == Head(userScreen.queue) IN
       IF t.id \in DOMAIN users
       THEN /\ users' = updateUserRole(users, t.id, t.role)
            /\ userHist' = [userHist EXCEPT !.promoted =
                              [id |-> t.id, from |-> users[t.id].role, to |-> t.role]]
            /\ userScreen' = [userScreen EXCEPT !.queue =
                                Append(Tail(@), [op |-> "load", id |-> 0, role |-> "none"])]
       ELSE /\ userScreen' = [userScreen EXCEPT !.queue = Tail(@)]
            /\ UNCHANGED <<users, userHist>>
  /\ UNCHANGED <<currentUser, isSuperAdmin, superCall, userFrame>>

\* deleteUser(user.id) returns and loadUsers() is issued
UM_deleteUser ==
  /\ userScreen.queue # <<>> /\ Head(userScreen.queue).op = "delete"
  /\ LET t == Head(userScreen.queue)
         by == parseInt(currentUser.id)
     IN
       /\ users' = deleteUser(users, t.id)
       /\ userHist' =
            IF t.id \in DOMAIN users
            THEN [userHist EXCEPT !.deleted =
                    [id |-> t.id, role |-> users[t.id].role, by |-> by,
                     byRole |-> IF by \in DOMAIN users THEN users[by].role ELSE "none"]]
            ELSE userHist
       /\ userScreen' = [userScreen EXCEPT !.queue =
                           Append(Tail(@), [op |-> "load", id |-> 0, role |-> "none"])]
  /\ UNCHANGED <<currentUser, isSuperAdmin, superCall, userFrame>>

UserNext ==
  \/ U_registerUser
  \/ SA_call \/ SA_byEmail \/ SA_byUsername \/ SA_update \/ SA_insert \/ SA_return
  \/ UM_mount \/ UM_unmount
  \/ UM_promote \/ UM_delete
  \/ UM_load \/ UM_updateUserRole \/ UM_deleteUser

UserSpec == UserInit /\ [][UserNext]_vars

\* ---------------------------------------------------------------- C34
\* C34: through handlePromoteUser and handleDeleteUser, whoever the acting
\* user is, a user with role 'superadmin' is never deleted and never has the
\* role changed, the acting user never deletes their own account, and a user
\* is deleted only when the acting user is a super admin.
C34_SuperAdminProtected ==
  /\ userHist.promoted # Null => userHist.promoted.from # "superadmin"
  /\ userHist.deleted # Null
       => /\ userHist.deleted.role # "superadmin"
          /\ userHist.deleted.id # userHist.deleted.by
          /\ userHist.deleted.byRole = "superadmin"

\* a super admin has deleted an admin after a promotion, with a second super
\* admin in the table
C34_AdminDeletedBySuperAdmin ==
  /\ userHist.promoted # Null
  /\ userHist.deleted # Null /\ userHist.deleted.role = "admin"
  /\ Cardinality({i \in DOMAIN users : users[i].role = "superadmin"}) = 2

\* ---------------------------------------------------------------- C39
\* C39: createOrGetSuperAdmin(email, username) returns a user with role
\* 'superadmin', creates at most one new user row however many times it is
\* called with the same arguments, and never changes the role of a user
\* whose email differs from the given email.
C39_SuperAdminOnlyForEmail ==
  /\ superCall.pc = "returned" => superCall.ret = "superadmin"
  /\ \A args \in Names \X Names : userHist.created[args] <= 1
  /\ userHist.changed # Null => userHist.changed.email = userHist.changed.given

====
